---- MODULE Spec2Model ----
(***************************************************************************)
(* Request schema of the REST catalog client (python/api/api_resquest.py). *)
(*                                                                         *)
(* The module declares an abstract marker class RESTRequest and three      *)
(* dataclasses: Identifier, CreateDatabaseRequest and AlterDatabaseRequest.*)
(* The dataclass decorator generates, for each of them, a constructor that *)
(* stores its arguments in the fields, in declaration order, and nothing   *)
(* else; the classes are not frozen, so attribute assignment is allowed.   *)
(*                                                                         *)
(* The model follows one caller that holds at most one value at a time:    *)
(* it constructs a value, may assign to its attributes, and may test it    *)
(* against the RESTRequest marker before handing it on.                    *)
(*                                                                         *)
(* Python strings are modelled as sequences of characters, a Dict[str,str] *)
(* as a function whose domain is its key set, a List[str] as a sequence.   *)
(***************************************************************************)
EXTENDS Naturals, Sequences, FiniteSets

VARIABLES obj, call, raised, errfield, ret

vars == <<obj, call, raised, errfield, ret>>

----------------------------------------------------------------------------
(* Bounds of the model and the value universes drawn from them.            *)

MaxStrLen == 2

MaxRemovals == 2

Chars == {"a", " "}

RECURSIVE SeqsUpTo(_, _)
SeqsUpTo(S, n) ==
    IF n = 0 THEN {<<>>}
    ELSE LET shorter == SeqsUpTo(S, n - 1)
         IN  shorter \cup {Append(s, c) : s \in shorter, c \in S}

Strs == SeqsUpTo(Chars, MaxStrLen)

Keys == {<<>>, <<"a">>, <<"b">>}

Vals == {<<"x">>, <<"y">>}

Dicts == UNION {[D -> Vals] : D \in SUBSET Keys}

Lists == SeqsUpTo(Keys, MaxRemovals)

Range(s) == {s[i] : i \in DOMAIN s}

None == [cls |-> "NoneType"]

----------------------------------------------------------------------------
(* Class declarations.                                                     *)

\* A class whose declaration drops the marker base.
BasesCreateUnmarked(c) ==
    CASE c = "RESTRequest" -> {"ABC"}
      [] c = "Identifier" -> {}
      [] c = "CreateDatabaseRequest" -> {}
      [] c = "AlterDatabaseRequest" -> {"RESTRequest"}
      [] OTHER -> {}

\* A declaration in which the identifier pair also derives from the marker.
BasesIdentifierMarked(c) ==
    CASE c = "RESTRequest" -> {"ABC"}
      [] c = "Identifier" -> {"RESTRequest"}
      [] c = "CreateDatabaseRequest" -> {"RESTRequest"}
      [] c = "AlterDatabaseRequest" -> {"RESTRequest"}
      [] OTHER -> {}

\* The base classes named in each class statement.
Bases(c) ==
    CASE c = "RESTRequest" -> {"ABC"}
      [] c = "Identifier" -> {}
      [] c = "CreateDatabaseRequest" -> {"RESTRequest"}
      [] c = "AlterDatabaseRequest" -> {"RESTRequest"}
      [] OTHER -> {}

RECURSIVE issubclass(_, _)
issubclass(c, d) == c = d \/ \E b \in Bases(c) : issubclass(b, d)

isinstance(v, c) == issubclass(v.cls, c)

\* The fields each dataclass declares, in declaration order.
Fields(c) ==
    CASE c = "Identifier" -> <<"database_name", "object_name">>
      [] c = "CreateDatabaseRequest" -> <<"name", "properties">>
      [] c = "AlterDatabaseRequest" -> <<"removals", "updates">>
      [] OTHER -> <<>>

\* The values of the annotated type of a field.
FieldType(c, f) ==
    CASE f \in {"database_name", "object_name", "name"} -> Strs
      [] f \in {"properties", "updates"} -> Dicts
      [] f = "removals" -> Lists
      [] OTHER -> {}

Returned(v) == [raised |-> "none", field |-> "none", value |-> v]

Raise(e, f) == [raised |-> e, field |-> f, value |-> None]

----------------------------------------------------------------------------
(* The generated constructors.  Each returns the outcome of the call: the  *)
(* exception raised, if any, with the field it names, or the new value.    *)

Strip(s) ==
    LET keep == {i \in DOMAIN s : \E j \in DOMAIN s, k \in DOMAIN s :
                                     j <= i /\ i <= k /\ s[j] # " " /\ s[k] # " "}
        first == IF keep = {} THEN 1 ELSE CHOOSE i \in keep : \A j \in keep : i <= j
    IN  [i \in 1..Cardinality(keep) |-> s[first + i - 1]]

\* A constructor that checks both names before storing them.
IdentifierValidating(database_name, object_name) ==
    IF database_name = <<>> THEN Raise("ValidationError", "database_name")
    ELSE IF object_name = <<>> THEN Raise("ValidationError", "object_name")
    ELSE Returned([cls |-> "Identifier",
                   database_name |-> database_name,
                   object_name |-> object_name])

\* A constructor that strips surrounding blanks from both names.
IdentifierTrimmed(database_name, object_name) ==
    Returned([cls |-> "Identifier",
              database_name |-> Strip(database_name),
              object_name |-> Strip(object_name)])

Identifier(database_name, object_name) ==
    Returned([cls |-> "Identifier",
              database_name |-> database_name,
              object_name |-> object_name])

\* A constructor that rejects an empty name.
CreateDatabaseRequestValidating(name, properties) ==
    IF name = <<>> THEN Raise("ValidationError", "name")
    ELSE Returned([cls |-> "CreateDatabaseRequest",
                   name |-> name,
                   properties |-> properties])

CreateDatabaseRequest(name, properties) ==
    Returned([cls |-> "CreateDatabaseRequest",
              name |-> name,
              properties |-> properties])

Conflicts(removals, updates) == Range(removals) \cap DOMAIN updates # {}

HasDuplicates(removals) ==
    \E i \in DOMAIN removals, j \in DOMAIN removals : i # j /\ removals[i] = removals[j]

\* A constructor in which an update takes precedence over a removal of its key.
AlterDatabaseRequestUpdatesWin(removals, updates) ==
    Returned([cls |-> "AlterDatabaseRequest",
              removals |-> SelectSeq(removals, LAMBDA k : k \notin DOMAIN updates),
              updates |-> updates])

\* A constructor that rejects a key that is both removed and updated.
AlterDatabaseRequestValidating(removals, updates) ==
    IF Conflicts(removals, updates) THEN Raise("ValidationError", "removals")
    ELSE Returned([cls |-> "AlterDatabaseRequest",
                   removals |-> removals,
                   updates |-> updates])

\* A constructor that filters empty-string keys out of both collections.
AlterDatabaseRequestNoEmptyKeys(removals, updates) ==
    Returned([cls |-> "AlterDatabaseRequest",
              removals |-> SelectSeq(removals, LAMBDA k : k # <<>>),
              updates |-> [k \in DOMAIN updates \ {<<>>} |-> updates[k]]])

\* A constructor that requires the removals to be pairwise distinct.
AlterDatabaseRequestUniqueRemovals(removals, updates) ==
    IF HasDuplicates(removals) THEN Raise("ValidationError", "removals")
    ELSE Returned([cls |-> "AlterDatabaseRequest",
                   removals |-> removals,
                   updates |-> updates])

AlterDatabaseRequest(removals, updates) ==
    Returned([cls |-> "AlterDatabaseRequest",
              removals |-> removals,
              updates |-> updates])

\* Attribute assignment on a frozen dataclass: the value stays as it was.
setattrFrozen(v, f, x) == v

\* Attribute assignment on an instance of a dataclass that is not frozen.
setattr(v, f, x) == [v EXCEPT ![f] = x]

\* The capability check the marker class supports.
classify_as_request(v) == isinstance(v, "RESTRequest")

----------------------------------------------------------------------------
(* The caller.                                                             *)

Call(op, attr, x, y) == [op |-> op, attr |-> attr, x |-> x, y |-> y]

Init ==
    /\ obj = None
    /\ call = Call("none", "none", <<>>, <<>>)
    /\ raised = "none"
    /\ errfield = "none"
    /\ ret = "none"

\* Binds the outcome of a constructor call: the new value replaces the held
\* one when the call returns, and the held one stays when the call raises.
Bind(r) ==
    /\ raised' = r.raised
    /\ errfield' = r.field
    /\ obj' = IF r.raised = "none" THEN r.value ELSE obj
    /\ ret' = IF r.raised = "none" THEN "object" ELSE "none"

ConstructIdentifier ==
    \E database_name \in Strs, object_name \in Strs :
        /\ call' = Call("Identifier", "none", database_name, object_name)
        /\ Bind(Identifier(database_name, object_name))

ConstructCreateDatabaseRequest ==
    \E name \in Strs, properties \in Dicts :
        /\ call' = Call("CreateDatabaseRequest", "none", name, properties)
        /\ Bind(CreateDatabaseRequest(name, properties))

ConstructAlterDatabaseRequest ==
    \E removals \in Lists, updates \in Dicts :
        /\ call' = Call("AlterDatabaseRequest", "none", removals, updates)
        /\ Bind(AlterDatabaseRequest(removals, updates))

SetAttr ==
    /\ obj # None
    /\ \E i \in DOMAIN Fields(obj.cls) :
         LET f == Fields(obj.cls)[i]
         IN  \E x \in FieldType(obj.cls, f) :
                /\ call' = Call("setattr", f, x, <<>>)
                /\ obj' = setattr(obj, f, x)
    /\ raised' = "none"
    /\ errfield' = "none"
    /\ ret' = "none"

ClassifyAsRequest ==
    /\ obj # None
    /\ call' = Call("classify_as_request", "none", <<>>, <<>>)
    /\ ret' = IF classify_as_request(obj) THEN "True" ELSE "False"
    /\ raised' = "none"
    /\ errfield' = "none"
    /\ UNCHANGED obj

Next ==
    \/ ConstructIdentifier
    \/ ConstructCreateDatabaseRequest
    \/ ConstructAlterDatabaseRequest
    \/ SetAttr
    \/ ClassifyAsRequest

Spec == Init /\ [][Next]_vars

----------------------------------------------------------------------------
(* Predicates the properties are stated with.                              *)

CtorOps == {"Identifier", "CreateDatabaseRequest", "AlterDatabaseRequest"}

\* The last constructor call returned a value that holds its arguments as given.
ConstructedAsGiven ==
    /\ raised = "none"
    /\ errfield = "none"
    /\ ret = "object"
    /\ obj.cls = call.op
    /\ obj[Fields(call.op)[1]] = call.x
    /\ obj[Fields(call.op)[2]] = call.y

\* The data-model invariants of a value.
SatisfiesInvariants(v) ==
    CASE v.cls = "Identifier" -> v.database_name # <<>> /\ v.object_name # <<>>
      [] v.cls = "CreateDatabaseRequest" -> v.name # <<>>
      [] v.cls = "AlterDatabaseRequest" -> ~Conflicts(v.removals, v.updates)
      [] OTHER -> TRUE

\* The data-model invariants, read off the arguments of the last constructor call.
ArgsSatisfyInvariants ==
    CASE call.op = "Identifier" -> call.x # <<>> /\ call.y # <<>>
      [] call.op = "CreateDatabaseRequest" -> call.x # <<>>
      [] call.op = "AlterDatabaseRequest" -> ~Conflicts(call.x, call.y)
      [] OTHER -> TRUE

\* A consumer of the removals: deleting a key from a property map, applying
\* a list of removals in order, and dropping repeated entries of a list.
RemoveKey(m, k) == [j \in DOMAIN m \ {k} |-> m[j]]

RECURSIVE ApplyRemovals(_, _)
ApplyRemovals(m, removals) ==
    IF removals = <<>> THEN m
    ELSE ApplyRemovals(RemoveKey(m, Head(removals)), Tail(removals))

RECURSIVE Dedup(_)
Dedup(removals) ==
    IF removals = <<>> THEN <<>>
    ELSE LET rest == Dedup(SelectSeq(Tail(removals), LAMBDA k : k # Head(removals)))
         IN  <<Head(removals)>> \o rest

----------------------------------------------------------------------------
(* C1 *)

\* C1 (as stated): constructing an AlterDatabaseRequest whose removals and
\* updates share a key fails with ValidationError and produces no value.
C1_ConflictRejected ==
    (call.op = "AlterDatabaseRequest" /\ Conflicts(call.x, call.y))
        => (raised = "ValidationError" /\ ret # "object")

\* C1 (amended): constructing an AlterDatabaseRequest whose removals and
\* updates share a key succeeds without any error, and the value holds the
\* removals list and the updates mapping exactly as given: neither side takes
\* precedence over the other.
C1_ConflictStoredAsGiven ==
    (call.op = "AlterDatabaseRequest" /\ Conflicts(call.x, call.y))
        => (ConstructedAsGiven /\ Conflicts(obj.removals, obj.updates))

C1_Witness ==
    /\ call.op = "AlterDatabaseRequest"
    /\ Conflicts(call.x, call.y)
    /\ obj.cls = "AlterDatabaseRequest"
    /\ <<"a">> \in Range(obj.removals) \cap DOMAIN obj.updates

(* C2 *)

\* C2 (as stated): constructing an Identifier with an empty database_name or
\* an empty object_name fails with ValidationError.
C2_EmptyNameRejected ==
    (call.op = "Identifier" /\ (call.x = <<>> \/ call.y = <<>>))
        => raised = "ValidationError"

\* C2 (amended): constructing an Identifier with an empty database_name or an
\* empty object_name succeeds without any error and yields an Identifier that
\* holds the empty string in that field.
C2_EmptyNameStored ==
    (call.op = "Identifier" /\ (call.x = <<>> \/ call.y = <<>>))
        => /\ ConstructedAsGiven
           /\ (obj.database_name = <<>> \/ obj.object_name = <<>>)

C2_Witness ==
    /\ call.op = "Identifier"
    /\ call.x = <<>>
    /\ call.y # <<>>
    /\ obj.cls = "Identifier"
    /\ obj.database_name = <<>>

(* C3 *)

\* C3: for every pair of non-empty strings (d, o), Identifier(d, o) succeeds
\* and its database_name and object_name read back as exactly d and o, blanks
\* included.
C3_IdentifierRoundTrip ==
    (call.op = "Identifier" /\ call.x # <<>> /\ call.y # <<>>)
        => /\ raised = "none"
           /\ ret = "object"
           /\ obj.cls = "Identifier"
           /\ obj.database_name = call.x
           /\ obj.object_name = call.y

C3_Witness ==
    /\ call.op = "Identifier"
    /\ call.x = <<" ", "a">>
    /\ call.y = <<"a", " ">>
    /\ obj.cls = "Identifier"
    /\ Len(obj.database_name) = 2
    /\ Len(obj.object_name) = 2

(* C4 *)

ValidCreate(v) ==
    /\ v.cls = "CreateDatabaseRequest"
    /\ v.name # <<>>
    /\ <<>> \notin DOMAIN v.properties

\* C4: a CreateDatabaseRequest built from a non-empty name and a properties
\* mapping with non-empty keys is constructed successfully, and classifying
\* the resulting value as a request yields true.
C4_ValidCreateIsRequest ==
    /\ (call.op = "CreateDatabaseRequest" /\ call.x # <<>> /\ <<>> \notin DOMAIN call.y)
          => (ConstructedAsGiven /\ classify_as_request(obj))
    /\ (call.op = "classify_as_request" /\ ValidCreate(obj))
          => (raised = "none" /\ ret = "True")

C4_Witness ==
    /\ call.op = "classify_as_request"
    /\ ValidCreate(obj)
    /\ DOMAIN obj.properties # {}
    /\ ret = "True"

(* C5 *)

\* C5 (as stated): constructing a CreateDatabaseRequest with an empty name
\* fails with a ValidationError that names the field name.
C5_EmptyNameReported ==
    (call.op = "CreateDatabaseRequest" /\ call.x = <<>>)
        => (raised = "ValidationError" /\ errfield = "name")

\* C5 (amended): constructing a CreateDatabaseRequest with an empty name
\* succeeds and yields a request whose name is the empty string; no
\* construction fails, so no offending field is ever reported.
C5_EmptyNameAccepted ==
    /\ (call.op = "CreateDatabaseRequest" /\ call.x = <<>>)
          => (ConstructedAsGiven /\ obj.name = <<>>)
    /\ (call.op \in CtorOps => errfield = "none")

C5_Witness ==
    /\ call.op = "CreateDatabaseRequest"
    /\ call.x = <<>>
    /\ call.y = <<>>
    /\ obj.cls = "CreateDatabaseRequest"
    /\ obj.name = <<>>

(* C6 *)

\* C6 (as stated): once a value has been constructed, no later operation on
\* it, attribute assignment included, changes any of its fields.
C6_NeverChanges ==
    [][(obj # None /\ call'.op \notin CtorOps) => obj' = obj]_vars

OtherFieldsKept(f) ==
    \A i \in DOMAIN Fields(obj.cls) :
        Fields(obj.cls)[i] # f => obj'[Fields(obj.cls)[i]] = obj[Fields(obj.cls)[i]]

\* C6 (amended): classifying a constructed value never changes its fields,
\* but the values are not immutable: an attribute assignment on the value
\* replaces exactly the assigned field by the assigned value and leaves the
\* class and the other field as they were.
C6_ChangesOnlyByAssignment ==
    [][/\ (obj # None /\ call'.op = "classify_as_request") => obj' = obj
       /\ (obj # None /\ call'.op = "setattr")
             => /\ obj'.cls = obj.cls
                /\ obj'[call'.attr] = call'.x
                /\ OtherFieldsKept(call'.attr)]_vars

C6_Witness ==
    /\ call.op = "setattr"
    /\ call.attr = "removals"
    /\ obj.cls = "AlterDatabaseRequest"
    /\ obj.removals = call.x
    /\ obj.removals # <<>>

(* C7 *)

EmptyKeyGiven ==
    \/ call.op = "CreateDatabaseRequest" /\ <<>> \in DOMAIN call.y
    \/ call.op = "AlterDatabaseRequest" /\ <<>> \in DOMAIN call.y
    \/ call.op = "AlterDatabaseRequest" /\ <<>> \in Range(call.x)

\* C9 (as stated): construction fails with ValidationError when properties
\* or updates has an empty-string key or removals has an empty-string entry.
C9_EmptyKeyRejected == EmptyKeyGiven => raised = "ValidationError"

\* C9 (amended): construction succeeds when properties or updates has an
\* empty-string key or removals has an empty-string entry, and the value
\* holds the empty-string key or entry as given.
C9_EmptyKeyStored ==
    EmptyKeyGiven
        => /\ ConstructedAsGiven
           /\ \/ obj.cls = "CreateDatabaseRequest" /\ <<>> \in DOMAIN obj.properties
              \/ obj.cls = "AlterDatabaseRequest" /\ <<>> \in DOMAIN obj.updates
              \/ obj.cls = "AlterDatabaseRequest" /\ <<>> \in Range(obj.removals)

C9_Witness ==
    /\ call.op = "AlterDatabaseRequest"
    /\ <<>> \in Range(call.x)
    /\ <<>> \notin DOMAIN call.y
    /\ obj.cls = "AlterDatabaseRequest"
    /\ <<>> \in Range(obj.removals)

(* C10 *)

\* C10: an AlterDatabaseRequest whose removals are disjoint from its updates
\* keys is constructed successfully even when removals repeats entries, the
\* list is held as given, and on every property map applying the held
\* removals gives the same map as applying the deduplicated list given;
\* removing a key twice, or a key the map lacks, changes nothing further.
C10_DuplicateRemovalsIdempotent ==
    (call.op = "AlterDatabaseRequest" /\ ~Conflicts(call.x, call.y))
        => /\ ConstructedAsGiven
           /\ \A m \in Dicts :
                /\ ApplyRemovals(m, obj.removals) = ApplyRemovals(m, Dedup(call.x))
                /\ DOMAIN ApplyRemovals(m, obj.removals) = DOMAIN m \ Range(call.x)

C10_Witness ==
    /\ call.op = "AlterDatabaseRequest"
    /\ call.x = <<<<"a">>, <<"a">>>>
    /\ <<"b">> \in DOMAIN call.y
    /\ obj.cls = "AlterDatabaseRequest"
    /\ HasDuplicates(obj.removals)
    /\ Dedup(obj.removals) = <<<<"a">>>>

====
